---------------------------- MODULE Spec2Model ----------------------------
(***************************************************************************)
(* limn: a retained-mode widget toolkit.  This module models parts of it,  *)
(* each under a specification of its own.                                  *)
(*                                                                         *)
(*   SpecScroll   the scroll container (src/src/widgets/scroll.rs) on top  *)
(*                of the event queue and the widget tree;                  *)
(*   SpecRender   the frame_ready flag shared by the rasterizer's notifier *)
(*                and the UI thread (src/core/src/render.rs);              *)
(*   SpecClock    the clock example's timer thread and the dispatch of     *)
(*                ClockTick to the clock subtree (src/examples/clock.rs);  *)
(*   SpecEllipse  the ellipse hit test (src/src/draw/ellipse.rs);          *)
(*   SpecDraw     EllipseState::draw and the hit test on the same bounds   *)
(*                (src/src/draw/ellipse.rs);                               *)
(*   SpecPump     the frame_ready flag with a UI thread that waits for the *)
(*                event loop's wakeups (src/core/src/render.rs).           *)
(*                                                                         *)
(* The event queue, the dispatch loop, the widget tree and the layout      *)
(* solver are not among the source files; they are modelled from the       *)
(* design document (sections 4.2, 4.3 and 5) and are marked so where they  *)
(* are defined.                                                            *)
(*                                                                         *)
(* Numbers.  The scroll code computes in f64 on values that are integers   *)
(* here (deltas, sizes), where f64 is exact.  The ellipse code computes in *)
(* f32; it is modelled in exact rational arithmetic extended with the two  *)
(* special values a division by zero produces (+inf and NaN).  Rounding,   *)
(* overflow and underflow of f32 are outside the model.                    *)
(***************************************************************************)
EXTENDS Integers, Sequences, FiniteSets, TLC

VARIABLES
    \* ---- event queue (shared by the scroll and the clock specifications)
    queue,          \* pending events, head first
    nextSeq,        \* number the next pushed event gets (history)
    \* ---- scroll container
    parentBounds,   \* bounds of the scroll parent
    children,       \* child widgets attached to the scroll parent
    removed,        \* child widgets that were attached and then removed
    childSize,      \* width and height of each child
    scrollable,     \* ScrollParent.scrollable
    panicMsg,       \* message of the panic that ended the process, or NoPanic
    handlers,       \* children with a registered WidgetScrollHandler
    offset,         \* WidgetScrollHandler.offset of each child
    edit,           \* edit_left / edit_top of each child's layout
    solver,         \* constraints held by the layout solver
    hist,           \* history of the scroll run (see ScrollHist0)
    \* ---- render context
    frame_ready,    \* WebRenderContext.frame_ready (the AtomicBool)
    render,         \* the two threads' positions and what they observed
    \* ---- clock example
    clock,          \* timer thread, traversal in progress, hands, history
    \* ---- ellipse
    ellipse,        \* the last hit test: its inputs and its result
    draw            \* an ellipse widget: its state, its bounds, the frame's
                    \* render builder

vars == << queue, nextSeq, parentBounds, children, removed, childSize,
           scrollable, panicMsg, handlers, offset, edit, solver, hist,
           frame_ready, render, clock, ellipse, draw >>

queueVars   == << queue, nextSeq >>
scrollVars  == << parentBounds, children, removed, childSize, scrollable,
                  panicMsg, handlers, offset, edit, solver, hist >>
renderVars  == << frame_ready, render >>
clockVars   == << clock >>
ellipseVars == << ellipse >>
drawVars    == << draw >>

\* what each part of the model leaves alone
notScroll  == << renderVars, clockVars, ellipseVars, drawVars >>
notRender  == << queueVars, scrollVars, clockVars, ellipseVars, drawVars >>
notClock   == << scrollVars, renderVars, ellipseVars, drawVars >>
notEllipse == << queueVars, scrollVars, renderVars, clockVars, drawVars >>
notDraw    == << queueVars, scrollVars, renderVars, clockVars, ellipseVars >>

(***************************************************************************)
(* Bounds of the model.                                                    *)
(***************************************************************************)
MaxChildren == 2    \* child widgets ever created for the scroll parent
MaxWheel == 2       \* mouse wheel events delivered to the scroll parent
MaxOps == 4         \* add_child, remove_child and wheel events in one run
MaxFrames == 3      \* frames the rasterizer announces
MaxTicks == 3       \* ticks the timer thread pushes
MaxNow == 2         \* seconds of wall-clock time that pass
MaxDim == 3         \* largest small width / height of ellipse bounds
MaxDrawDim == 2     \* largest width / height of the bounds that are drawn
MaxDraws == 2       \* calls of draw into one render builder

Min(a, b) == IF a <= b THEN a ELSE b
Max(a, b) == IF a >= b THEN a ELSE b

(***************************************************************************)
(* Event queue.  Modelled from the design document, section 4.3: events    *)
(* are queued, never dispatched synchronously, and drained in FIFO order.  *)
(***************************************************************************)
None == 0           \* Option::None for a WidgetId
Parent == 100       \* WidgetId of the scroll parent
ChildIds == 1..MaxChildren

NoBounds == [left |-> 0, top |-> 0, width |-> 0, height |-> 0]

Event(type, target, child, delta, pb) ==
    [type |-> type, target |-> target, child |-> child, delta |-> delta,
     pb |-> pb, seq |-> 0]

\* event!(target, event): the event goes to the back of the queue
Push(q, e, n) == Append(q, [e EXCEPT !.seq = n])

RECURSIVE PushAll(_, _, _)
PushAll(q, es, n) ==
    IF es = << >> THEN q ELSE PushAll(Push(q, Head(es), n), Tail(es), n + 1)


(***************************************************************************)
(* Scroll container: src/src/widgets/scroll.rs                             *)
(***************************************************************************)
NoPanic == "none"
MoreThanOneChild == "Scroll parent has more than one child"

ScrollStep == 13    \* pixels scrolled per unit of wheel delta

\* glutin::MouseScrollDelta values the input layer delivers
LineDelta(x, y) == [kind |-> "LineDelta", x |-> x, y |-> y]
PixelDelta(x, y) == [kind |-> "PixelDelta", x |-> x, y |-> y]
NoDelta == LineDelta(0, 0)
Deltas == { LineDelta(-4, 0), PixelDelta(-39, -3), LineDelta(2, 1) }

ParentBoundsSet == { [left |-> 10, top |-> 5, width |-> 100, height |-> 50] }
ChildSizes == { << 300, 120 >>, << 80, 50 >> }

\* get_scroll: both variants give the point (x, y)
get_scroll(event) ==
    CASE event.kind = "LineDelta" -> << event.x, event.y >>
      [] event.kind = "PixelDelta" -> << event.x, event.y >>

\* the closure ScrollBuilder::new registers for WidgetMouseWheel: the events
\* it pushes
WheelClosure(widget_id, event) ==
    << Event("ScrollParentEvent::WidgetMouseWheel", widget_id, None,
             event.delta, NoBounds) >>

\* ScrollContainer::add_child: the event it pushes
add_child_events(parent, child) ==
    << Event("ScrollParentEvent::ChildAttached", parent, child, NoDelta,
             NoBounds) >>

\* A mutant of add_child_constraints: the constraints are put on the
\* parent's layout instead of the child's.
add_child_constraints_on_parent(parent, child) ==
    { [owner |-> parent, for |-> child, kind |-> k, strength |-> "WEAK"] :
        k \in { "align_left", "align_top" } }

\* ScrollContainer::add_child: layout!(child: align_left(parent) WEAK,
\* align_top(parent) WEAK).  owner is the widget whose layout holds the
\* constraint, for the child whose attachment added it.
add_child_constraints(parent, child) ==
    { [owner |-> child, for |-> child, kind |-> k, strength |-> "WEAK"] :
        k \in { "align_left", "align_top" } }

\* ScrollContainer::remove_child: the event it pushes (the child id and the
\* solver are ignored)
remove_child_events(parent) ==
    << Event("ScrollParentEvent::ChildAttached", parent, None, NoDelta,
             NoBounds) >>

\* A mutant of ChildAttached: the check for an earlier child is missing.
ChildAttachedUnchecked(sc, child_id) ==
    [panic |-> NoPanic, scrollable |-> child_id]

\* ScrollParent::handle, ChildAttached arm
ChildAttached(sc, child_id) ==
    IF sc # None
    THEN [panic |-> MoreThanOneChild, scrollable |-> sc]
    ELSE [panic |-> NoPanic, scrollable |-> child_id]

\* A mutant of ParentMouseWheel: the WidgetScroll event is pushed whether
\* or not a scrollable child is recorded.
ParentMouseWheelUnguarded(sc, mouse_wheel, widget_bounds) ==
    << Event("WidgetScroll", sc, None, mouse_wheel, widget_bounds) >>

\* A mutant of ParentMouseWheel: the WidgetScroll event is pushed twice.
ParentMouseWheelTwice(sc, mouse_wheel, widget_bounds) ==
    IF sc # None
    THEN << Event("WidgetScroll", sc, None, mouse_wheel, widget_bounds),
            Event("WidgetScroll", sc, None, mouse_wheel, widget_bounds) >>
    ELSE << >>

\* ScrollParent::handle, WidgetMouseWheel arm: the events it pushes
ParentMouseWheel(sc, mouse_wheel, widget_bounds) ==
    IF sc # None
    THEN << Event("WidgetScroll", sc, None, mouse_wheel, widget_bounds) >>
    ELSE << >>

\* A mutant of ScrollOffset: the upper clamp against 0 is missing.
ScrollOffsetNoUpperClamp(off, event, parent_bounds, widget_size) ==
    LET scroll == get_scroll(event)
        max_scroll == << parent_bounds.width - widget_size[1],
                         parent_bounds.height - widget_size[2] >>
    IN  << Max(max_scroll[1], off[1] + scroll[1] * ScrollStep),
           Max(max_scroll[2], off[2] + scroll[2] * ScrollStep) >>

\* A mutant of ScrollOffset: the lower clamp against max_scroll is missing.
ScrollOffsetNoLowerClamp(off, event, parent_bounds, widget_size) ==
    LET scroll == get_scroll(event)
    IN  << Min(0, off[1] + scroll[1] * ScrollStep),
           Min(0, off[2] + scroll[2] * ScrollStep) >>

\* WidgetScrollHandler::handle: the new value of self.offset
ScrollOffset(off, event, parent_bounds, widget_size) ==
    LET scroll == get_scroll(event)
        max_scroll == << parent_bounds.width - widget_size[1],
                         parent_bounds.height - widget_size[2] >>
        sum == << off[1] + scroll[1] * ScrollStep,
                  off[2] + scroll[2] * ScrollStep >>
    IN  << Min(0, Max(max_scroll[1], sum[1])),
           Min(0, Max(max_scroll[2], sum[2])) >>

\* WidgetScrollHandler::handle: the values given to edit_left / edit_top
ScrollEdit(off, parent_bounds) ==
    [set |-> TRUE, left |-> parent_bounds.left + off[1],
     top |-> parent_bounds.top + off[2]]

Unset == [set |-> FALSE, left |-> 0, top |-> 0]

\* History of a scroll run; it does not influence the run.
ScrollHist0 ==
    [wheels |-> 0,          \* wheel events delivered
     wheelLog |-> << >>,    \* deltas of the wheel events delivered while a
                            \* child was attached
     scrollLog |-> << >>,   \* [child, delta] of each WidgetScroll handled
     attachRun |-> 0,       \* ChildAttached(Some) handled since the last
                            \* ChildAttached(None) was handled
     maxAttached |-> 0,     \* most children attached at one time
     removes |-> 0,         \* calls of remove_child
     dropped |-> 0,         \* events dropped for want of their target
     violation |-> 0,       \* seq of the ChildAttached event of the first
                            \* add_child made while a child was attached
     lastSeq |-> 0,         \* seq of the event dispatched last
     lastType |-> "none"]   \* type of the event dispatched last

Panicked == panicMsg # NoPanic

\* what the application and the input layer have done so far
OpsDone == Cardinality(children \cup removed) + hist.removes + hist.wheels


(***************************************************************************)
(* Scroll container: the operations.  The application code, the handlers   *)
(* and the dispatch loop all run on the UI thread, so each is one step.    *)
(* After a panic the process is gone and nothing more happens.             *)
(***************************************************************************)
ScrollIdle ==
    /\ parentBounds = NoBounds
    /\ children = {}
    /\ removed = {}
    /\ childSize = [c \in ChildIds |-> << 0, 0 >>]
    /\ scrollable = None
    /\ panicMsg = NoPanic
    /\ handlers = {}
    /\ offset = [c \in ChildIds |-> << 0, 0 >>]
    /\ edit = [c \in ChildIds |-> Unset]
    /\ solver = {}
    /\ hist = ScrollHist0

QueueIdle == queue = << >> /\ nextSeq = 1

\* ScrollBuilder::new: a scroll parent with no child; ScrollParent::new
\* sets scrollable to None
ScrollInit ==
    /\ parentBounds \in ParentBoundsSet
    /\ children = {}
    /\ removed = {}
    /\ childSize = [c \in ChildIds |-> << 0, 0 >>]
    /\ scrollable = None
    /\ panicMsg = NoPanic
    /\ handlers = {}
    /\ offset = [c \in ChildIds |-> << 0, 0 >>]
    /\ edit = [c \in ChildIds |-> Unset]
    /\ solver = {}
    /\ hist = ScrollHist0

\* Widget ids are handed out in order and never reused: a child is attached
\* at most once.
NextChildId == Cardinality(children \cup removed) + 1

\* Widget::add_child (design document 4.2) takes the child into the tree and
\* invokes the container policy, ScrollContainer::add_child.
AddChild(c, size) ==
    /\ ~Panicked
    /\ OpsDone < MaxOps
    /\ c = NextChildId
    /\ children' = children \cup { c }
    /\ childSize' = [childSize EXCEPT ![c] = size]
    /\ queue' = PushAll(queue, add_child_events(Parent, c), nextSeq)
    /\ nextSeq' = nextSeq + Len(add_child_events(Parent, c))
    /\ solver' = solver \cup add_child_constraints(Parent, c)
    /\ handlers' = handlers \cup { c }
    /\ offset' = [offset EXCEPT ![c] = << 0, 0 >>]
    /\ hist' = [hist EXCEPT
                  !.maxAttached = Max(@, Cardinality(children) + 1),
                  !.violation = IF @ = 0 /\ children # {} THEN nextSeq
                                ELSE @]
    /\ UNCHANGED << parentBounds, removed, scrollable, panicMsg, edit >>
    /\ UNCHANGED notScroll

\* Widget::remove_child (design document 4.2): the container policy's
\* teardown (ScrollContainer::remove_child), then the child's constraints
\* leave the solver, its handlers are unregistered and it is released.
RemoveChild(c) ==
    /\ ~Panicked
    /\ OpsDone < MaxOps
    /\ c \in children
    /\ queue' = PushAll(queue, remove_child_events(Parent), nextSeq)
    /\ nextSeq' = nextSeq + Len(remove_child_events(Parent))
    /\ solver' = { k \in solver : k.owner # c }
    /\ handlers' = handlers \ { c }
    /\ offset' = [offset EXCEPT ![c] = << 0, 0 >>]
    /\ edit' = [edit EXCEPT ![c] = Unset]
    /\ children' = children \ { c }
    /\ removed' = removed \cup { c }
    /\ hist' = [hist EXCEPT !.removes = @ + 1]
    /\ UNCHANGED << parentBounds, childSize, scrollable, panicMsg >>
    /\ UNCHANGED notScroll

\* The input layer delivers a mouse wheel event to the scroll parent.
MouseWheelInput(d) ==
    /\ ~Panicked
    /\ OpsDone < MaxOps
    /\ hist.wheels < MaxWheel
    /\ queue' = Push(queue, Event("WidgetMouseWheel", Parent, None, d,
                                  NoBounds), nextSeq)
    /\ nextSeq' = nextSeq + 1
    /\ hist' = [hist EXCEPT
                  !.wheels = @ + 1,
                  !.wheelLog = IF children # {} THEN Append(@, d) ELSE @]
    /\ UNCHANGED << parentBounds, children, removed, childSize, scrollable,
                    panicMsg, handlers, offset, edit, solver >>
    /\ UNCHANGED notScroll

\* The widget an event is addressed to is in the tree.
TargetExists(e) == e.target = Parent \/ e.target \in children

Dispatching(type) ==
    /\ ~Panicked
    /\ queue # << >>
    /\ Head(queue).type = type
    /\ TargetExists(Head(queue))

Dispatched(e) == [hist EXCEPT !.lastSeq = e.seq, !.lastType = e.type]

\* A mutant of DropOutcome: a missing target is reported as an error.
DropOutcomeError == "no such widget"

\* What dispatching to a missing target raises: nothing (design document
\* 4.3 and 7)
DropOutcome == NoPanic

\* Dispatch of an event whose target is gone: dropped (design document 4.3)
DispatchDrop ==
    /\ ~Panicked
    /\ queue # << >>
    /\ ~TargetExists(Head(queue))
    /\ queue' = Tail(queue)
    /\ panicMsg' = DropOutcome
    /\ hist' = [Dispatched(Head(queue)) EXCEPT !.dropped = @ + 1]
    /\ UNCHANGED << nextSeq, parentBounds, children, removed, childSize,
                    scrollable, handlers, offset, edit, solver >>
    /\ UNCHANGED notScroll

\* WidgetMouseWheel at the scroll parent: the closure of ScrollBuilder::new
DispatchMouseWheel ==
    /\ Dispatching("WidgetMouseWheel")
    /\ LET e == Head(queue)
           pushed == WheelClosure(e.target, e)
       IN  /\ queue' = PushAll(Tail(queue), pushed, nextSeq)
           /\ nextSeq' = nextSeq + Len(pushed)
           /\ hist' = Dispatched(e)
    /\ UNCHANGED << parentBounds, children, removed, childSize, scrollable,
                    panicMsg, handlers, offset, edit, solver >>
    /\ UNCHANGED notScroll

\* ScrollParentEvent::ChildAttached at the scroll parent
DispatchChildAttached ==
    /\ Dispatching("ScrollParentEvent::ChildAttached")
    /\ LET e == Head(queue)
           r == ChildAttached(scrollable, e.child)
       IN  /\ queue' = Tail(queue)
           /\ panicMsg' = r.panic
           /\ scrollable' = r.scrollable
           /\ hist' = [Dispatched(e) EXCEPT
                         !.attachRun = IF e.child = None THEN 0 ELSE @ + 1]
    /\ UNCHANGED << nextSeq, parentBounds, children, removed, childSize,
                    handlers, offset, edit, solver >>
    /\ UNCHANGED notScroll

\* ScrollParentEvent::WidgetMouseWheel at the scroll parent
DispatchParentWheel ==
    /\ Dispatching("ScrollParentEvent::WidgetMouseWheel")
    /\ LET e == Head(queue)
           pushed == ParentMouseWheel(scrollable, e.delta, parentBounds)
       IN  /\ queue' = PushAll(Tail(queue), pushed, nextSeq)
           /\ nextSeq' = nextSeq + Len(pushed)
           /\ hist' = Dispatched(e)
    /\ UNCHANGED << parentBounds, children, removed, childSize, scrollable,
                    panicMsg, handlers, offset, edit, solver >>
    /\ UNCHANGED notScroll

\* WidgetScroll at a child: WidgetScrollHandler::handle
DispatchWidgetScroll ==
    /\ Dispatching("WidgetScroll")
    /\ Head(queue).target \in handlers
    /\ LET e == Head(queue)
           c == e.target
           off == ScrollOffset(offset[c], e.delta, e.pb, childSize[c])
       IN  /\ queue' = Tail(queue)
           /\ offset' = [offset EXCEPT ![c] = off]
           /\ edit' = [edit EXCEPT ![c] = ScrollEdit(off, e.pb)]
           /\ hist' = [Dispatched(e) EXCEPT
                         !.scrollLog =
                            Append(@, [child |-> c, delta |-> e.delta])]
    /\ UNCHANGED << nextSeq, parentBounds, children, removed, childSize,
                    scrollable, panicMsg, handlers, solver >>
    /\ UNCHANGED notScroll

NextScroll ==
    \/ \E c \in ChildIds, size \in ChildSizes : AddChild(c, size)
    \/ \E c \in ChildIds : RemoveChild(c)
    \/ \E d \in Deltas : MouseWheelInput(d)
    \/ DispatchDrop
    \/ DispatchMouseWheel
    \/ DispatchChildAttached
    \/ DispatchParentWheel
    \/ DispatchWidgetScroll


(***************************************************************************)
(* Render context: src/core/src/render.rs.  The notifier runs on the       *)
(* rasterizer's thread, frame_ready() and update() on the UI thread; the   *)
(* flag is an AtomicBool, so each load and store is one step.              *)
(***************************************************************************)
Render0 ==
    [ui |-> "idle",         \* UI thread: idle, or inside update(); in the
                            \* event loop: waiting, awake, ready, pumping
     notifier |-> "idle",   \* notifier: idle, or inside wake_up after wakeup()
     frames |-> 0,          \* frames announced by the rasterizer
     wakeups |-> 0,         \* wakeups sent to the event loop
     awakened |-> 0,        \* wakeups the event loop has returned for
     entryReady |-> FALSE,  \* frame_ready when update() was entered last
     rendered |-> "none",   \* the last update() that rendered was entered
                            \* with a frame "ready" or "unready"
     shown |-> 0,           \* the frame renderer.render() presented last
     pending |-> FALSE,     \* wake_up stored since update() last cleared
     lastRead |-> "none",   \* what frame_ready() returned last
     readPending |-> FALSE] \* the value of pending at that call

RenderIdle == frame_ready = FALSE /\ render = Render0

\* WebRenderContext::new: frame_ready starts false
RenderInit == frame_ready = FALSE /\ render = Render0

\* Notifier::new_frame_ready calls wake_up, whose first statement wakes the
\* event loop
WakeUpProxy ==
    /\ render.notifier = "idle"
    /\ render.frames < MaxFrames
    /\ render' = [render EXCEPT !.notifier = "woken", !.frames = @ + 1,
                                !.wakeups = @ + 1]
    /\ UNCHANGED frame_ready
    /\ UNCHANGED notRender

\* Notifier::wake_up: the value it stores into frame_ready
WakeUpFlag == TRUE

\* Notifier::wake_up, second statement: frame_ready.store(true, Release)
WakeUpStore ==
    /\ render.notifier = "woken"
    /\ frame_ready' = WakeUpFlag
    /\ render' = [render EXCEPT !.notifier = "idle", !.pending = TRUE]
    /\ UNCHANGED notRender

\* A mutant of FrameReadyCall: the flag is taken (swap) instead of loaded.
FrameReadySwap(flag) == [value |-> flag, flag |-> FALSE]

\* WebRenderContext::frame_ready: frame_ready.load(Acquire); the value
\* returned and the flag afterwards
FrameReadyCall(flag) == [value |-> flag, flag |-> flag]

FrameReady ==
    /\ render.ui = "idle"
    /\ LET r == FrameReadyCall(frame_ready)
       IN  /\ frame_ready' = r.flag
           /\ render' = [render EXCEPT !.lastRead = r.value,
                                       !.readPending = render.pending]
    /\ UNCHANGED notRender

\* WebRenderContext::update, first statement: frame_ready.store(false)
UpdateStore ==
    /\ render.ui = "idle"
    /\ frame_ready' = FALSE
    /\ render' = [render EXCEPT !.ui = "updating", !.pending = FALSE,
                                !.entryReady = frame_ready]
    /\ UNCHANGED notRender

\* renderer.update(); renderer.render(): the frame presented, and whether
\* the call of update() had found a frame ready
Rendered(r) ==
    [r EXCEPT !.shown = r.frames,
              !.rendered = IF r.entryReady THEN "ready" ELSE "unready"]

\* WebRenderContext::update, the rest: renderer.update(); renderer.render()
UpdateRender ==
    /\ render.ui = "updating"
    /\ render' = [Rendered(render) EXCEPT !.ui = "idle"]
    /\ UNCHANGED frame_ready
    /\ UNCHANGED notRender

NextRender ==
    \/ WakeUpProxy
    \/ WakeUpStore
    \/ FrameReady
    \/ UpdateStore
    \/ UpdateRender

(***************************************************************************)
(* The UI thread as an event loop: it waits for a wakeup, and on each      *)
(* wakeup reads frame_ready() and calls update() when it is true.          *)
(***************************************************************************)
PumpInit == frame_ready = FALSE /\ render = [Render0 EXCEPT !.ui = "waiting"]

\* the event loop returns for one wakeup
PumpWake ==
    /\ render.ui = "waiting"
    /\ render.awakened < render.wakeups
    /\ render' = [render EXCEPT !.ui = "awake", !.awakened = @ + 1]
    /\ UNCHANGED frame_ready
    /\ UNCHANGED notRender

\* if frame_ready() { update() }, the test
PumpFrameReady ==
    /\ render.ui = "awake"
    /\ LET r == FrameReadyCall(frame_ready)
       IN  /\ frame_ready' = r.flag
           /\ render' = [render EXCEPT
                           !.ui = IF r.value THEN "ready" ELSE "waiting",
                           !.lastRead = r.value,
                           !.readPending = render.pending]
    /\ UNCHANGED notRender

\* update(), called by the loop: frame_ready.store(false)
PumpUpdateStore ==
    /\ render.ui = "ready"
    /\ frame_ready' = FALSE
    /\ render' = [render EXCEPT !.ui = "pumping", !.pending = FALSE,
                                !.entryReady = frame_ready]
    /\ UNCHANGED notRender

\* update(), called by the loop: renderer.update(); renderer.render(); the
\* loop then waits again
PumpUpdateRender ==
    /\ render.ui = "pumping"
    /\ render' = [Rendered(render) EXCEPT !.ui = "waiting"]
    /\ UNCHANGED frame_ready
    /\ UNCHANGED notRender

NextPump ==
    \/ WakeUpProxy
    \/ WakeUpStore
    \/ PumpWake
    \/ PumpFrameReady
    \/ PumpUpdateStore
    \/ PumpUpdateRender


(***************************************************************************)
(* Clock example: src/examples/clock.rs.  The timer thread pushes a        *)
(* ClockTick for the clock's subtree once a second; the UI thread drains   *)
(* the queue.  The traversal of a subtree (design document 4.3) is         *)
(* depth-first, a widget before its children, children in insertion order. *)
(***************************************************************************)
ClockWidgets == { "root", "clock", "hour", "minute", "second" }

\* A mutant of ClockChildren: the hands are added in another order.
ClockChildrenSwapped(w) ==
    CASE w = "root" -> << "clock" >>
      [] w = "clock" -> << "minute", "hour", "second" >>
      [] OTHER -> << >>

\* The tree main and ClockBuilder::new build: root_widget.add_child(clock);
\* widget.add_child(hour_widget), (minute_widget), (second_widget)
ClockChildren(w) ==
    CASE w = "root" -> << "clock" >>
      [] w = "clock" -> << "hour", "minute", "second" >>
      [] OTHER -> << >>

\* The handlers ClockBuilder::new registers: the event type each handles
ClockHandlers(w) ==
    IF w \in { "hour", "minute", "second" } THEN << "ClockTick" >> ELSE << >>

\* hour_angle, minute_angle, second_angle, in units of a full turn / 12
\* (hour) and / 60 (minute, second), for a time of day given in seconds
hour_angle(now) == ((now \div 3600) % 24) % 12
minute_angle(now) == (now \div 60) % 60
second_angle(now) == now % 60

\* update_hour_hand, update_minute_hand, update_second_hand
UpdateHand(w, angles, now) ==
    CASE w = "hour" -> [angles EXCEPT !.hour = hour_angle(now)]
      [] w = "minute" -> [angles EXCEPT !.minute = minute_angle(now)]
      [] w = "second" -> [angles EXCEPT !.second = second_angle(now)]
      [] OTHER -> angles

\* A mutant of TimerEvents: the tick never reaches the shared queue.
TimerEventsLost(clock_id) == << >>

\* The timer thread's event_queue.push(EventAddress::SubTree(clock_id),
\* ClockTick(()))
TimerEvents(clock_id) ==
    << [type |-> "ClockTick", mode |-> "SubTree", target |-> clock_id,
        seq |-> 0] >>

RECURSIVE SubTreeOrder(_)
RECURSIVE SubTreeOrderAll(_)
\* the widgets of the subtree rooted at w, in the order dispatch visits them
SubTreeOrder(w) == << w >> \o SubTreeOrderAll(ClockChildren(w))
SubTreeOrderAll(ws) ==
    IF ws = << >> THEN << >>
    ELSE SubTreeOrder(Head(ws)) \o SubTreeOrderAll(Tail(ws))

Clock0 ==
    [timer |-> "sleep",     \* timer thread: in thread::sleep, or about to push
     ticks |-> 0,           \* ticks pushed
     now |-> 0,             \* time of day, seconds
     current |-> 0,         \* seq of the tick being dispatched (0: none yet)
     toVisit |-> << >>,     \* widgets the dispatch in progress has yet to visit
     visited |-> << >>,     \* widgets it has visited, in order
     invoked |-> << >>,     \* [widget, type] of the handlers it has invoked
     done |-> 0,            \* ticks whose dispatch is complete
     angles |-> [hour |-> 0, minute |-> 0, second |-> 0]]

ClockIdle == clock = Clock0
ClockInit == clock = Clock0

TimePasses ==
    /\ clock.now < MaxNow
    /\ clock' = [clock EXCEPT !.now = @ + 1]
    /\ UNCHANGED queueVars
    /\ UNCHANGED notClock

\* thread::sleep returns
TimerSleep ==
    /\ clock.timer = "sleep"
    /\ clock.ticks < MaxTicks
    /\ clock' = [clock EXCEPT !.timer = "push"]
    /\ UNCHANGED queueVars
    /\ UNCHANGED notClock

TimerPush ==
    /\ clock.timer = "push"
    /\ queue' = PushAll(queue, TimerEvents("clock"), nextSeq)
    /\ nextSeq' = nextSeq + Len(TimerEvents("clock"))
    /\ clock' = [clock EXCEPT !.timer = "sleep", !.ticks = @ + 1]
    /\ UNCHANGED notClock

\* The UI thread takes the next event off the queue and resolves its target.
ClockDispatchBegin ==
    /\ clock.toVisit = << >>
    /\ queue # << >>
    /\ LET e == Head(queue)
       IN  /\ queue' = Tail(queue)
           /\ clock' = [clock EXCEPT
                          !.current = e.seq,
                          !.toVisit = IF e.mode = "SubTree"
                                      THEN SubTreeOrder(e.target)
                                      ELSE << e.target >>,
                          !.visited = << >>,
                          !.invoked = << >>]
    /\ UNCHANGED nextSeq
    /\ UNCHANGED notClock

RECURSIVE InvokeAll(_, _, _, _)
\* the handlers of w for events of type `type`, invoked in registration order
InvokeAll(w, hs, type, st) ==
    IF hs = << >> THEN st
    ELSE InvokeAll(w, Tail(hs), type,
            IF Head(hs) = type
            THEN [angles |-> UpdateHand(w, st.angles, st.now),
                  now |-> st.now,
                  invoked |-> Append(st.invoked,
                                     [widget |-> w, type |-> Head(hs)])]
            ELSE st)

\* The dispatch in progress visits its next widget.
ClockVisit ==
    /\ clock.toVisit # << >>
    /\ LET w == Head(clock.toVisit)
           r == InvokeAll(w, ClockHandlers(w), "ClockTick",
                          [angles |-> clock.angles, now |-> clock.now,
                           invoked |-> clock.invoked])
       IN  clock' = [clock EXCEPT
                       !.toVisit = Tail(@),
                       !.visited = Append(@, w),
                       !.invoked = r.invoked,
                       !.angles = r.angles,
                       !.done = IF Len(clock.toVisit) = 1 THEN @ + 1 ELSE @]
    /\ UNCHANGED queueVars
    /\ UNCHANGED notClock

NextClock ==
    \/ TimePasses
    \/ TimerSleep
    \/ TimerPush
    \/ ClockDispatchBegin
    \/ ClockVisit


(***************************************************************************)
(* Ellipse hit test: src/src/draw/ellipse.rs.  A number is a fraction      *)
(* [n, d] with d >= 0; d = 0 stands for what an f32 division by zero       *)
(* gives: n > 0 is +inf, n < 0 is -inf, n = 0 is NaN.                      *)
(***************************************************************************)
RECURSIVE GCD(_, _)
GCD(a, b) == IF b = 0 THEN a ELSE GCD(b, a % b)
Abs(i) == IF i < 0 THEN -i ELSE i

\* the fraction n / d in lowest terms
Rat(n, d) ==
    IF d = 0 THEN [n |-> n, d |-> 0]
    ELSE LET g == GCD(Abs(n), d) IN [n |-> n \div g, d |-> d \div g]
Int2Rat(i) == Rat(i, 1)
IsNaN(a) == a.d = 0 /\ a.n = 0
IsInf(a) == a.d = 0 /\ a.n # 0
Sign(i) == IF i > 0 THEN 1 ELSE IF i < 0 THEN -1 ELSE 0

\* a + b
RAdd(a, b) ==
    CASE IsNaN(a) \/ IsNaN(b) -> Rat(0, 0)
      [] IsInf(a) /\ IsInf(b) ->
            IF Sign(a.n) = Sign(b.n) THEN Rat(Sign(a.n), 0) ELSE Rat(0, 0)
      [] IsInf(a) -> Rat(Sign(a.n), 0)
      [] IsInf(b) -> Rat(Sign(b.n), 0)
      [] OTHER -> Rat(a.n * b.d + b.n * a.d, a.d * b.d)

\* a - b
RSub(a, b) == RAdd(a, Rat(-b.n, b.d))

\* a * b
RMul(a, b) ==
    CASE IsNaN(a) \/ IsNaN(b) -> Rat(0, 0)
      [] IsInf(a) \/ IsInf(b) -> Rat(Sign(a.n) * Sign(b.n), 0)
      [] OTHER -> Rat(a.n * b.n, a.d * b.d)

\* a / b
RDiv(a, b) ==
    CASE IsNaN(a) \/ IsNaN(b) -> Rat(0, 0)
      [] IsInf(a) /\ IsInf(b) -> Rat(0, 0)
      [] IsInf(a) -> Rat(Sign(a.n) * (IF b.n < 0 THEN -1 ELSE 1), 0)
      [] IsInf(b) -> Rat(0, 1)
      [] b.n = 0 -> Rat(Sign(a.n), 0)
      [] OTHER -> Rat(a.n * b.d * Sign(b.n), a.d * b.n * Sign(b.n))

\* a.powi(2)
RSq(a) == RMul(a, a)

\* a <= b; false when either is NaN
RLeq(a, b) ==
    CASE IsNaN(a) \/ IsNaN(b) -> FALSE
      [] IsInf(a) /\ IsInf(b) -> Sign(a.n) <= Sign(b.n)
      [] IsInf(a) -> a.n < 0
      [] IsInf(b) -> b.n > 0
      [] OTHER -> a.n * b.d <= b.n * a.d

\* a < b; false when either is NaN
RLt(a, b) == RLeq(a, b) /\ ~RLeq(b, a)

\* A mutant of point_inside_ellipse: the boundary is left out.
point_strictly_inside_ellipse(point, center, radius) ==
    RLt(RAdd(RDiv(RSq(RSub(point.x, center.x)), RSq(radius.width)),
             RDiv(RSq(RSub(point.y, center.y)), RSq(radius.height))),
        Int2Rat(1))

\* point_inside_ellipse
point_inside_ellipse(point, center, radius) ==
    RLeq(RAdd(RDiv(RSq(RSub(point.x, center.x)), RSq(radius.width)),
              RDiv(RSq(RSub(point.y, center.y)), RSq(radius.height))),
         Int2Rat(1))

\* cursor_hit; bounds hold fractions in left, top, width and height
cursor_hit(bounds, cursor) ==
    LET radius == [width |-> RDiv(bounds.width, Int2Rat(2)),
                   height |-> RDiv(bounds.height, Int2Rat(2))]
        center == [x |-> RAdd(bounds.left, radius.width),
                   y |-> RAdd(bounds.top, radius.height)]
    IN  point_inside_ellipse(cursor, center, radius)

\* Inputs of the hit test: bounds with whole coordinates, among them the
\* 100 x 50 bounds at the origin, and cursors on the half-pixel grid.
Dims == (0..MaxDim) \cup { 50, 100 }
Lefts == { 0, 1 }
Tops == { 0, 2 }
Halves == (0..(2 * MaxDim + 4)) \cup { 50, 100, 200 }

RectOf(l, t, w, h) ==
    [left |-> Int2Rat(l), top |-> Int2Rat(t), width |-> Int2Rat(w),
     height |-> Int2Rat(h)]
PointOf(x2, y2) == [x |-> Rat(x2, 2), y |-> Rat(y2, 2)]

Ellipse0 ==
    [called |-> FALSE, bounds |-> RectOf(0, 0, 0, 0), cursor |-> PointOf(0, 0),
     hit |-> FALSE]

EllipseIdle == ellipse = Ellipse0

\* a widget's bounds and a cursor position, before the hit test is made
EllipseInit ==
    \E l \in Lefts, t \in Tops, w \in Dims, h \in Dims, x2 \in Halves,
       y2 \in Halves :
        ellipse = [called |-> FALSE, bounds |-> RectOf(l, t, w, h),
                   cursor |-> PointOf(x2, y2), hit |-> FALSE]

CursorHit ==
    /\ ~ellipse.called
    /\ ellipse' = [ellipse EXCEPT
                     !.called = TRUE,
                     !.hit = cursor_hit(ellipse.bounds, ellipse.cursor)]
    /\ UNCHANGED notEllipse

NextEllipse == CursorHit

(***************************************************************************)
(* Ellipse drawing: src/src/draw/ellipse.rs.  A primitive is what          *)
(* push_rect receives: the rectangle, its clip rectangle and the colour.   *)
(***************************************************************************)
Floor(a) == a.n \div a.d

\* f32::round: to the nearest whole number, halves away from zero
RRound(a) ==
    IF a.d = 0 THEN a
    ELSE IF a.n >= 0 THEN Int2Rat(Floor(RAdd(a, Rat(1, 2))))
    ELSE Int2Rat(-Floor(RAdd(Rat(-a.n, a.d), Rat(1, 2))))

\* Rect::round: origin and size rounded
RectRound(r) ==
    [left |-> RRound(r.left), top |-> RRound(r.top),
     width |-> RRound(r.width), height |-> RRound(r.height)]

\* RectExt::shrink_bounds: the rectangle with the same centre, smaller by
\* size in width and in height
shrink_bounds(r, size) ==
    [left |-> RAdd(r.left, RDiv(size, Int2Rat(2))),
     top |-> RAdd(r.top, RDiv(size, Int2Rat(2))),
     width |-> RSub(r.width, size),
     height |-> RSub(r.height, size)]

\* push_ellipse: PrimitiveInfo::with_clip_rect(rect, clip_rect), push_rect
push_ellipse(renderer, rect, clip_rect, color) ==
    Append(renderer, [rect |-> rect, clip |-> clip_rect, color |-> color])

NoBorder == << >>
Border(width, color) == << width, color >>

\* A mutant of EllipseDraw: a border narrower than 2.0 keeps its width.
EllipseDrawThinBorder(self, bounds0, renderer) ==
    LET bounds == RectRound(bounds0)
    IN  IF self.border # NoBorder
        THEN [self |-> self,
              renderer |->
                 push_ellipse(push_ellipse(renderer, bounds, bounds,
                                           self.border[2]),
                              bounds, shrink_bounds(bounds, self.border[1]),
                              self.background_color)]
        ELSE [self |-> self,
              renderer |-> push_ellipse(renderer, bounds, bounds,
                                        self.background_color)]

\* A mutant of EllipseDraw: the widened border width is stored back into
\* the state (draw takes &mut self).
EllipseDrawStoresWidth(self, bounds0, renderer) ==
    LET bounds == RectRound(bounds0)
    IN  IF self.border # NoBorder
        THEN LET width == IF RLt(self.border[1], Int2Rat(2))
                          THEN Int2Rat(2) ELSE self.border[1]
             IN  [self |-> [self EXCEPT
                              !.border = Border(width, self.border[2])],
                  renderer |->
                     push_ellipse(push_ellipse(renderer, bounds, bounds,
                                               self.border[2]),
                                  bounds, shrink_bounds(bounds, width),
                                  self.background_color)]
        ELSE [self |-> self,
              renderer |-> push_ellipse(renderer, bounds, bounds,
                                        self.background_color)]

\* EllipseState::draw: the state and the render builder afterwards
EllipseDraw(self, bounds0, renderer) ==
    LET bounds == RectRound(bounds0)
    IN  IF self.border # NoBorder
        THEN LET width == IF RLt(self.border[1], Int2Rat(2))
                          THEN Int2Rat(2) ELSE self.border[1]
             IN  [self |-> self,
                  renderer |->
                     push_ellipse(push_ellipse(renderer, bounds, bounds,
                                               self.border[2]),
                                  bounds, shrink_bounds(bounds, width),
                                  self.background_color)]
        ELSE [self |-> self,
              renderer |-> push_ellipse(renderer, bounds, bounds,
                                        self.background_color)]

\* Inputs: bounds and cursors on the half-pixel grid, borders of several
\* widths (one of them narrower than 2.0) or none.
DrawHalves == 0..(2 * MaxDrawDim)
DrawOrigins == { 0, 1 }
BorderWidths == { Rat(1, 1), Rat(5, 2) }
Borders == { NoBorder } \cup { Border(w, "WHITE") : w \in BorderWidths }

HalfRect(l2, t2, w2, h2) ==
    [left |-> Rat(l2, 2), top |-> Rat(t2, 2), width |-> Rat(w2, 2),
     height |-> Rat(h2, 2)]

\* component_style!: background_color defaults to BLACK, border to None;
\* a style may set either
EllipseStates ==
    { [background_color |-> "BLACK", border |-> b] : b \in Borders }
    \cup { [background_color |-> "RED", border |-> NoBorder] }

Draw0 ==
    [self |-> [background_color |-> "BLACK", border |-> NoBorder],
     self0 |-> [background_color |-> "BLACK", border |-> NoBorder],
     bounds |-> HalfRect(0, 0, 0, 0),
     cursor |-> PointOf(0, 0),
     renderer |-> << >>,    \* the primitives pushed into the frame's builder
     draws |-> 0,           \* calls of draw into this builder
     hitDone |-> FALSE,     \* cursor_hit was called for bounds and cursor
     hit |-> FALSE]         \* and this is what it returned

DrawIdle == draw = Draw0

\* an ellipse widget with its resolved bounds, an empty render builder
\* (WebRenderContext::render_builder), and a cursor position
DrawInit ==
    \E st \in EllipseStates, l2 \in DrawOrigins, t2 \in { 0 },
       w2 \in DrawHalves, h2 \in DrawHalves, x2 \in DrawHalves,
       y2 \in DrawHalves :
        draw = [Draw0 EXCEPT !.self = st, !.self0 = st,
                             !.bounds = HalfRect(l2, t2, w2, h2),
                             !.cursor = PointOf(x2, y2)]

\* The render pass asks the widget to draw itself.
DrawEllipse ==
    /\ draw.draws < MaxDraws
    /\ LET r == EllipseDraw(draw.self, draw.bounds, draw.renderer)
       IN  draw' = [draw EXCEPT !.self = r.self, !.renderer = r.renderer,
                                !.draws = @ + 1]
    /\ UNCHANGED notDraw

\* The input layer tests the cursor against the widget.
DrawCursorHit ==
    /\ ~draw.hitDone
    /\ draw' = [draw EXCEPT !.hitDone = TRUE,
                            !.hit = cursor_hit(draw.bounds, draw.cursor)]
    /\ UNCHANGED notDraw

NextDraw ==
    \/ DrawEllipse
    \/ DrawCursorHit

(***************************************************************************)
(* The specifications.                                                     *)
(***************************************************************************)
InitScroll ==
    QueueIdle /\ ScrollInit /\ RenderIdle /\ ClockIdle /\ EllipseIdle /\ DrawIdle
InitRender ==
    QueueIdle /\ ScrollIdle /\ RenderInit /\ ClockIdle /\ EllipseIdle /\ DrawIdle
InitClock ==
    QueueIdle /\ ScrollIdle /\ RenderIdle /\ ClockInit /\ EllipseIdle /\ DrawIdle
InitEllipse ==
    QueueIdle /\ ScrollIdle /\ RenderIdle /\ ClockIdle /\ EllipseInit /\ DrawIdle
InitPump ==
    QueueIdle /\ ScrollIdle /\ PumpInit /\ ClockIdle /\ EllipseIdle /\ DrawIdle
InitDraw ==
    QueueIdle /\ ScrollIdle /\ RenderIdle /\ ClockIdle /\ EllipseIdle /\ DrawInit

SpecScroll == InitScroll /\ [][NextScroll]_vars
SpecRender == InitRender /\ [][NextRender]_vars
SpecClock == InitClock /\ [][NextClock]_vars
\* The UI thread's loop keeps running: a dispatch that can go on does.
SpecClockFair ==
    SpecClock /\ WF_vars(ClockDispatchBegin) /\ WF_vars(ClockVisit)
SpecEllipse == InitEllipse /\ [][NextEllipse]_vars
SpecDraw == InitDraw /\ [][NextDraw]_vars
SpecPump == InitPump /\ [][NextPump]_vars


(***************************************************************************)
(* Properties of the scroll container (SpecScroll).                        *)
(***************************************************************************)
RECURSIVE IsPrefix(_, _)
IsPrefix(a, b) ==
    \/ a = << >>
    \/ /\ b # << >>
       /\ Head(a) = Head(b)
       /\ IsPrefix(Tail(a), Tail(b))

ScrolledDeltas == [i \in 1..Len(hist.scrollLog) |-> hist.scrollLog[i].delta]
HasScrolled(c) == \E i \in 1..Len(hist.scrollLog) : hist.scrollLog[i].child = c

\* C1: for an attached child, on every axis on which it is larger than the
\* scroll parent the accumulated offset lies in [max_scroll, 0], with
\* max_scroll = parent size - child size, and once the child has handled a
\* WidgetScroll its edit-left / edit-top are the parent's left / top plus
\* the offset.
C1_OffsetClamped ==
    \A c \in handlers :
        /\ childSize[c][1] > parentBounds.width =>
              /\ parentBounds.width - childSize[c][1] <= offset[c][1]
              /\ offset[c][1] <= 0
        /\ childSize[c][2] > parentBounds.height =>
              /\ parentBounds.height - childSize[c][2] <= offset[c][2]
              /\ offset[c][2] <= 0
        /\ HasScrolled(c) =>
              /\ edit[c].set
              /\ edit[c].left = parentBounds.left + offset[c][1]
              /\ edit[c].top = parentBounds.top + offset[c][2]

\* C1, its case: parent width 100, child width 300, an update of -52
\* (4 lines) and then one of -507 leave the x offset at exactly -200.
C1_Witness ==
    \E c \in handlers :
        /\ parentBounds.width = 100
        /\ childSize[c][1] = 300
        /\ hist.scrollLog = << [child |-> c, delta |-> LineDelta(-4, 0)],
                               [child |-> c, delta |-> PixelDelta(-39, -3)] >>
        /\ offset[c][1] = -200
        /\ edit[c].left = parentBounds.left - 200

\* C2: the scroll parent never keeps running after it has processed two
\* child attachments with no detach processed in between: the second one
\* ends in the panic "Scroll parent has more than one child".
C2_SecondAttachPanics ==
    /\ hist.attachRun >= 2 => panicMsg = MoreThanOneChild
    /\ ~Panicked => (scrollable = None <=> hist.attachRun = 0)

\* C2, its case: a second attachment was processed, and the process ended.
C2_Witness ==
    /\ hist.attachRun = 2
    /\ hist.removes = 0
    /\ panicMsg = MoreThanOneChild

\* C3: as long as at most one child is attached at a time, the panic is
\* never raised, and once the queue is drained the scroll parent's
\* scrollable is the attached child, or None when there is none.
C3_DetachIsSafe ==
    hist.maxAttached <= 1 =>
        /\ ~Panicked
        /\ queue = << >> =>
              \/ children = {} /\ scrollable = None
              \/ children = { scrollable }

\* C6: the queue holds its events in the order they were pushed and every
\* one of them was pushed after the event dispatched last; and, when every
\* wheel event was delivered with a child attached and no child is
\* removed, the child handles the wheel events once each and in their
\* order: what it has handled is a prefix of what was delivered, and all of
\* it once the queue is drained.
C6_QueuedInOrder ==
    /\ \A i \in 1..Len(queue) :
          /\ queue[i].seq > hist.lastSeq
          /\ i > 1 => queue[i - 1].seq < queue[i].seq
    /\ (hist.removes = 0 /\ Len(hist.wheelLog) = hist.wheels) =>
          /\ IsPrefix(ScrolledDeltas, hist.wheelLog)
          /\ (queue = << >> /\ ~Panicked) => ScrolledDeltas = hist.wheelLog

\* C6, its case: two different wheel events went through the chain.
C6_Witness ==
    /\ hist.removes = 0
    /\ ~Panicked
    /\ queue = << >>
    /\ Len(hist.wheelLog) = 2
    /\ hist.wheels = 2
    /\ hist.wheelLog[1] # hist.wheelLog[2]
    /\ ScrolledDeltas = hist.wheelLog

\* C7: the dispatch of a WidgetScroll whose target child has been removed
\* takes the event off the queue and does nothing else: no panic, no
\* handler run, no event pushed, no layout variable or constraint changed.
C7_StaleDispatchIsNoOp ==
    [][ ( /\ ~Panicked
          /\ queue # << >>
          /\ Head(queue).type = "WidgetScroll"
          /\ Head(queue).target \notin children
          /\ hist'.lastSeq # hist.lastSeq )
        => ( /\ queue' = Tail(queue)
             /\ panicMsg' = NoPanic
             /\ nextSeq' = nextSeq
             /\ hist'.scrollLog = hist.scrollLog
             /\ offset' = offset
             /\ edit' = edit
             /\ solver' = solver
             /\ scrollable' = scrollable ) ]_vars

\* C7, its case: the event dispatched last was a WidgetScroll, and no
\* WidgetScroll was ever handled: it was dropped, its child being gone.
C7_Witness ==
    /\ hist.lastType = "WidgetScroll"
    /\ hist.dropped = 1
    /\ hist.removes = 1
    /\ hist.scrollLog = << >>
    /\ ~Panicked

\* C9: no constraint added for a removed child is left in the solver and
\* its WidgetScrollHandler is unregistered; an attached child has exactly
\* its two WEAK constraints and its handler.
C9_NoLeakedConstraints ==
    /\ \A c \in removed :
          /\ ~ \E k \in solver : k.for = c
          /\ c \notin handlers
    /\ \A c \in children :
          /\ { k \in solver : k.for = c } =
                { [owner |-> c, for |-> c, kind |-> "align_left",
                   strength |-> "WEAK"],
                  [owner |-> c, for |-> c, kind |-> "align_top",
                   strength |-> "WEAK"] }
          /\ c \in handlers

\* C9, its case: one child was removed while another is attached.
C9_Witness ==
    /\ removed # {}
    /\ children # {}
    /\ solver # {}


(***************************************************************************)
(* Properties of the render context (SpecRender).                          *)
(***************************************************************************)
\* C4: a ready signal stored since update() last cleared the flag is not
\* lost: the flag stays true, and frame_ready() returns true, until the
\* next update(); and no step but the store at the start of update() takes
\* the flag from true to false.
C4_SignalNotLost ==
    /\ [](render.pending => frame_ready)
    /\ [](render.readPending => render.lastRead = TRUE)
    /\ [][ (frame_ready /\ ~frame_ready')
           => (render.ui = "idle" /\ render'.ui = "updating") ]_vars

\* C4, its case: after an update() that ran to its end, wake_up stored
\* again, and frame_ready() has returned true since.
C4_Witness ==
    /\ render.shown >= 1
    /\ render.ui = "idle"
    /\ render.pending
    /\ render.readPending
    /\ render.lastRead = TRUE
    /\ frame_ready

(***************************************************************************)
(* Properties of the clock example (SpecClock, SpecClockFair).             *)
(***************************************************************************)
HandInvocations ==
    << [widget |-> "hour", type |-> "ClockTick"],
       [widget |-> "minute", type |-> "ClockTick"],
       [widget |-> "second", type |-> "ClockTick"] >>

\* C5: the dispatch of a ClockTick to SubTree(clock) visits the clock, the
\* hour hand, the minute hand and the second hand, in this order and once
\* each, and nothing else; it invokes the ClockTick handler of each hand
\* it has visited once, and no other handler.
C5_SubTreeOrder ==
    clock.current # 0 =>
        /\ clock.visited \o clock.toVisit =
              << "clock", "hour", "minute", "second" >>
        /\ clock.invoked =
              SubSeq(HandInvocations, 1, Max(0, Len(clock.visited) - 1))

\* C5, its case: the second tick has been dispatched to the whole subtree.
C5_Witness ==
    /\ clock.done = 2
    /\ clock.toVisit = << >>
    /\ Len(clock.visited) = 4
    /\ Len(clock.invoked) = 3

\* C8: no pushed tick is lost (each is queued, being dispatched, or
\* dispatched), and with the UI thread running every pushed tick is
\* eventually dispatched.
C8_TicksDispatched ==
    /\ [](clock.ticks = clock.done + Len(queue)
                          + (IF clock.toVisit # << >> THEN 1 ELSE 0))
    /\ \A k \in 1..MaxTicks : (clock.ticks >= k) ~> (clock.done >= k)

\* C8, its case: ticks were pushed while earlier ones were still queued,
\* and all of them have been dispatched.
C8_Witness ==
    /\ clock.ticks >= 3
    /\ clock.done = clock.ticks
    /\ queue = << >>

(***************************************************************************)
(* Properties of the ellipse hit test (SpecEllipse).                       *)
(***************************************************************************)
\* a whole number or a number of halves, as twice its value
Twice(a) == a.n * (2 \div a.d)

\* ((x - cx) / rx)^2 + ((y - cy) / ry)^2 <= 1 for the ellipse inscribed in
\* bounds, with every length doubled and the divisions multiplied out
\* (width and height positive)
InEllipse(b, p) ==
    LET w == b.width.n
        h == b.height.n
        dx == Twice(p.x) - 2 * b.left.n - w
        dy == Twice(p.y) - 2 * b.top.n - h
    IN  dx * dx * h * h + dy * dy * w * w <= w * w * h * h

IsCentre(b, p) ==
    /\ Twice(p.x) = 2 * b.left.n + b.width.n
    /\ Twice(p.y) = 2 * b.top.n + b.height.n

IsCorner(b, p) ==
    /\ Twice(p.x) \in { 2 * b.left.n, 2 * (b.left.n + b.width.n) }
    /\ Twice(p.y) \in { 2 * b.top.n, 2 * (b.top.n + b.height.n) }

\* C10: for bounds of positive width and height, cursor_hit is true exactly
\* for the points with ((x-cx)/rx)^2 + ((y-cy)/ry)^2 <= 1; the centre is
\* inside and every corner is outside; for the bounds (0, 0, 100, 50) the
\* point (50, 25) is inside and the point (0, 0) is outside.
C10_HitIsEllipse ==
    (ellipse.called /\ ellipse.bounds.width.n > 0
                    /\ ellipse.bounds.height.n > 0) =>
        /\ ellipse.hit <=> InEllipse(ellipse.bounds, ellipse.cursor)
        /\ IsCentre(ellipse.bounds, ellipse.cursor) => ellipse.hit
        /\ IsCorner(ellipse.bounds, ellipse.cursor) => ~ellipse.hit
        /\ ellipse.bounds = RectOf(0, 0, 100, 50) =>
              /\ ellipse.cursor = PointOf(100, 50) => ellipse.hit
              /\ ellipse.cursor = PointOf(0, 0) => ~ellipse.hit

\* C10, its case: the hit test of the centre (50, 25) of the bounds
\* (0, 0, 100, 50).
C10_Witness ==
    /\ ellipse.called
    /\ ellipse.bounds = RectOf(0, 0, 100, 50)
    /\ ellipse.cursor = PointOf(100, 50)
    /\ ellipse.hit

(***************************************************************************)
(* Properties of ellipse drawing.                                          *)
(***************************************************************************)
\* Rect::contains: the left and top edges belong to a rectangle, the right
\* and bottom edges do not
RectContains(r, p) ==
    /\ RLeq(r.left, p.x) /\ RLt(p.x, RAdd(r.left, r.width))
    /\ RLeq(r.top, p.y) /\ RLt(p.y, RAdd(r.top, r.height))

\* the region a primitive covers: its rectangle, clipped
Covered(prim, p) == RectContains(prim.rect, p) /\ RectContains(prim.clip, p)

Painted(renderer, p) ==
    \E i \in 1..Len(renderer) : Covered(renderer[i], p)

\* C11: the hit test agrees with the shape draw paints: cursor_hit(bounds, p)
\* is true exactly when p lies inside the region covered by the primitives
\* that draw pushes for those bounds.
C11_HitAgreesWithDraw ==
    (draw.hitDone /\ draw.draws > 0) =>
        (draw.hit <=> Painted(draw.renderer, draw.cursor))

\* C13: draw is a read-only projection: it leaves background_color and
\* border as they were, pushes no event and does not touch the widget tree;
\* its only effect is to append primitives to the render builder.
C13_DrawReadsOnly ==
    /\ [](draw.self = draw.self0)
    /\ [][draw'.draws # draw.draws =>
            /\ draw'.self = draw.self
            /\ queue' = queue /\ nextSeq' = nextSeq
            /\ children' = children /\ handlers' = handlers
            /\ Len(draw'.renderer) > Len(draw.renderer)
            /\ IsPrefix(draw.renderer, draw'.renderer)]_vars

\* C13, its case: an ellipse with a border narrower than 2.0 was drawn.
C13_Witness ==
    /\ draw.draws = MaxDraws
    /\ draw.self0.border # NoBorder
    /\ RLt(draw.self0.border[1], Int2Rat(2))
    /\ Len(draw.renderer) = 2 * MaxDraws

\* the bounds of the widget, rounded: whole coordinates, written out
RoundedBounds ==
    LET whole(a) == Int2Rat((2 * a.n + a.d) \div (2 * a.d))
    IN  [left |-> whole(draw.bounds.left), top |-> whole(draw.bounds.top),
         width |-> whole(draw.bounds.width),
         height |-> whole(draw.bounds.height)]

\* what one call of draw is to push, from the state the widget was built with
ExpectedPrimitives ==
    LET b == RoundedBounds
        st == draw.self0
    IN  IF st.border = NoBorder
        THEN << [rect |-> b, clip |-> b, color |-> st.background_color] >>
        ELSE LET w == IF RLeq(Int2Rat(2), st.border[1])
                      THEN st.border[1] ELSE Int2Rat(2)
             IN  << [rect |-> b, clip |-> b, color |-> st.border[2]],
                    [rect |-> b, clip |-> shrink_bounds(b, w),
                     color |-> st.background_color] >>

\* C18: draw pushes exactly one primitive (the background colour, clipped to
\* the rounded bounds) without a border, and exactly two, in order, with
\* one: the border colour clipped to the rounded bounds, then the background
\* colour clipped to the rounded bounds shrunk by max(border width, 2.0).
C18_DrawPrimitives ==
    LET e == ExpectedPrimitives
    IN  /\ Len(draw.renderer) = draw.draws * Len(e)
        /\ \A i \in 1..Len(draw.renderer) :
              draw.renderer[i] = e[((i - 1) % Len(e)) + 1]
        /\ (draw.draws > 0 /\ draw.self0.border # NoBorder
              /\ RLt(draw.self0.border[1], Int2Rat(2))) =>
              draw.renderer[2].clip = shrink_bounds(RoundedBounds, Int2Rat(2))

\* C18, its case: an ellipse with a border of width 1.0 and bounds off the
\* pixel grid was drawn.
C18_Witness ==
    /\ draw.draws = 1
    /\ draw.self0.border = Border(Rat(1, 1), "WHITE")
    /\ draw.bounds = HalfRect(1, 0, 3, 4)
    /\ Len(draw.renderer) = 2
    /\ draw.renderer[1].color = "WHITE"
    /\ draw.renderer[2].color = "BLACK"

(***************************************************************************)
(* Properties of update() and of the event loop (SpecRender, SpecPump).    *)
(***************************************************************************)
\* C12: update() acts only when a frame is ready: entered with no frame
\* ready it does nothing, so no call of update() that found frame_ready
\* false has updated the renderer and rendered.
C12_UpdateOnlyWhenReady == render.rendered # "unready"

\* C15: the event loop never goes idle while a frame is ready: in no
\* reachable state is frame_ready true, the UI thread waiting and no wakeup
\* pending.
C15_NeverIdleWhileReady ==
    ~(/\ frame_ready
      /\ render.ui = "waiting"
      /\ render.awakened = render.wakeups)

(***************************************************************************)
(* Further properties of the scroll container (SpecScroll).                *)
(***************************************************************************)
\* a step that dispatches the event at the head of the queue to a handler
HandlerRuns ==
    /\ queue # << >>
    /\ hist'.lastSeq = Head(queue).seq
    /\ hist'.lastSeq # hist.lastSeq
    /\ hist'.dropped = hist.dropped

\* C14: a cardinality violation is surfaced at the violating add_child:
\* between the attach of a second child and the fatal error no handler of
\* any other event runs and no layout edit is applied.
C14_SurfacedAtOnce ==
    [][(hist.violation # 0 /\ ~Panicked) =>
          /\ HandlerRuns => (Head(queue).seq = hist.violation /\ Panicked')
          /\ edit' = edit]_vars

\* C16: a mouse wheel event handled by a ScrollParent that has no scrollable
\* child recorded pushes no WidgetScroll event and changes no layout
\* variable.
C16_WheelWithoutChild ==
    [][(/\ HandlerRuns
        /\ Head(queue).type = "ScrollParentEvent::WidgetMouseWheel"
        /\ scrollable = None) =>
          /\ queue' = Tail(queue)
          /\ nextSeq' = nextSeq
          /\ edit' = edit /\ offset' = offset /\ solver' = solver]_vars

\* C16, its case: the parent handled a wheel event while a child was
\* attached whose ChildAttached event is still queued; nothing scrolled.
C16_Witness ==
    /\ hist.lastType = "ScrollParentEvent::WidgetMouseWheel"
    /\ scrollable = None
    /\ children # {}
    /\ queue # << >>
    /\ Head(queue).type = "ScrollParentEvent::ChildAttached"
    /\ \A i \in 1..Len(queue) : queue[i].type # "WidgetScroll"
    /\ hist.scrollLog = << >>
    /\ \A c \in children : ~edit[c].set

\* C17: the offset is never positive, and on an axis on which the child is
\* not larger than the parent (max_scroll >= 0) it stays 0 whatever
\* WidgetScroll events are handled: the child stays at the parent's left /
\* top edge.
C17_OffsetNeverPositive ==
    \A c \in handlers :
        /\ offset[c][1] <= 0
        /\ offset[c][2] <= 0
        /\ childSize[c][1] <= parentBounds.width =>
              /\ offset[c][1] = 0
              /\ HasScrolled(c) => edit[c].left = parentBounds.left
        /\ childSize[c][2] <= parentBounds.height =>
              /\ offset[c][2] = 0
              /\ HasScrolled(c) => edit[c].top = parentBounds.top

\* C17, its case: a child no larger than the parent has handled a scroll to
\* the left and one to the right and down, and has not moved.
C17_Witness ==
    \E c \in handlers :
        /\ childSize[c][1] <= parentBounds.width
        /\ childSize[c][2] <= parentBounds.height
        /\ hist.scrollLog = << [child |-> c, delta |-> LineDelta(-4, 0)],
                               [child |-> c, delta |-> LineDelta(2, 1)] >>
        /\ offset[c] = << 0, 0 >>
        /\ edit[c].set
        /\ edit[c].left = parentBounds.left
        /\ edit[c].top = parentBounds.top

=============================================================================
